---- MODULE Spec2Model ----
(***************************************************************************)
(* Model of pkg/project/auth/watch.go: the userProjectWatcher, which turns *)
(* the auth cache's synchronous GroupMembershipChanged notifications into  *)
(* a watch.Interface event stream.                                         *)
(*                                                                         *)
(* Threads of control:                                                     *)
(*   - the dispatcher thread, running GroupMembershipChanged               *)
(*   - the Watch goroutine                                                 *)
(*   - the consumer of ResultChan (the receive half of EmitSend)           *)
(*   - any number of threads calling Stop                                  *)
(* Channel operations and cache calls are the atomic steps.                *)
(***************************************************************************)
EXTENDS Naturals, Sequences, FiniteSets

\* ---- bounds of the model ----
\* capacity of cacheIncoming in the model (make(chan watch.Event, 1000))
BufferCap == 1
\* number of events of the dispatcher that cacheIncoming accepts in a run
MaxEnqueued == 2

\* ---- program constants ----
\* capacity of cacheError: make(chan error, 1)
ErrorCap == 1

\* namespaces that exist, the identities the cache knows, the watcher's identity
Names == {"a", "b"}
Users == {"bob"}
GroupNames == {"dev"}
username == "bob"
groups == {"dev"}
StopThreads == {1, 2}

NoEvent == [type |-> "NONE", object |-> ""]
AddTimeout == "add notification timeout"
DeleteTimeout == "delete notification timeout"

VARIABLES
  knownProjects,    \* w.knownProjects
  initialProjects,  \* w.initialProjects (names, in list order)
  listed,           \* the names authCache.List returned at construction
  cacheIncoming,    \* buffered channel, contents as a sequence
  cacheError,       \* buffered channel of capacity 1
  userStop,         \* TRUE once the channel userStop is closed
  userStopCloses,   \* number of close(w.userStop) executed
  stopLock,         \* 0 when free, else the thread holding w.stopLock
  stopPc,           \* position of each thread inside Stop
  registered,       \* the watcher is in authCache's watcher set
  removeCalls,      \* RemoveWatcher calls made by each caller
  watchPc,          \* position of the Watch goroutine
  watchI,           \* loop index i over initialProjects (1-based)
  watchEvent,       \* the event Watch is emitting
  outgoingCloses,   \* number of close(w.outgoing) executed
  delivered,        \* events received by the consumer of ResultChan, in order
  gmcPc,            \* position of the dispatcher inside GroupMembershipChanged
  gmcErr,           \* the error GroupMembershipChanged is about to record
  lastCall,         \* classification of the most recent call
  enqueued          \* events accepted by cacheIncoming, in order

vars == <<knownProjects, initialProjects, listed, cacheIncoming, cacheError, userStop,
          userStopCloses, stopLock, stopPc, registered,
          removeCalls, watchPc, watchI, watchEvent, outgoingCloses, delivered,
          gmcPc, gmcErr, lastCall, enqueued>>

stopVars == <<userStop, userStopCloses, stopLock, stopPc>>
gmcVars == <<knownProjects, gmcPc, gmcErr, lastCall, enqueued>>
watchVars == <<watchPc, watchI, watchEvent, outgoingCloses, delivered>>

\* ---- helpers ----
Event(t, n) == [type |-> t, object |-> n]

makeErrorEvent(err) == [type |-> "ERROR", object |-> err]

\* sets.String.HasAny
HasAny(s, items) == (s \cap items) # {}

Range(s) == {s[i] : i \in 1..Len(s)}

\* what authCache.List may answer: the visible namespaces in some order
ListResults == {<<>>, <<"b", "a">>}

\* the six sets of one change notification
ChangeInputs ==
  {c \in [latestUsers : SUBSET Users, latestGroups : SUBSET GroupNames,
          removedUsers : SUBSET Users, removedGroups : SUBSET GroupNames,
          addedUsers : SUBSET Users, addedGroups : SUBSET GroupNames] :
     (c.addedUsers = {}) = (c.addedGroups = {})}

NoChange == [latestUsers |-> {}, latestGroups |-> {}, removedUsers |-> {},
             removedGroups |-> {}, addedUsers |-> {}, addedGroups |-> {}]

NoCall == [name |-> "", change |-> NoChange, hasAccess |-> FALSE,
           removed |-> FALSE, lookupOk |-> FALSE, known |-> FALSE]

\* ---- construction ----
NewUserProjectWatcher(namespaces, includeAllExistingProjects) ==
  /\ knownProjects = Range(namespaces)
  /\ listed = Range(namespaces)
  /\ initialProjects = IF includeAllExistingProjects THEN namespaces ELSE <<>>
  /\ cacheIncoming = <<>>
  /\ cacheError = <<>>
  /\ userStop = FALSE

Init ==
  /\ \E namespaces \in ListResults, include \in BOOLEAN :
        NewUserProjectWatcher(namespaces, include)
  /\ userStopCloses = 0
  /\ stopLock = 0
  /\ stopPc = [t \in StopThreads |-> "idle"]
  /\ registered = TRUE
  /\ removeCalls = [gmc |-> 0, watch |-> 0]
  /\ watchPc = "initial"
  /\ watchI = 1
  /\ watchEvent = NoEvent
  /\ outgoingCloses = 0
  /\ delivered = <<>>
  /\ gmcPc = "idle"
  /\ gmcErr = ""
  /\ lastCall = NoCall
  /\ enqueued = <<>>

\* ---- authCache.RemoveWatcher ----
\* variant: the cache keeps notifying a watcher it was asked to remove
RemoveWatcherKeeps(caller) ==
  /\ registered' = registered
  /\ removeCalls' = [removeCalls EXCEPT ![caller] = @ + 1]

RemoveWatcher(caller) ==
  /\ registered' = FALSE
  /\ removeCalls' = [removeCalls EXCEPT ![caller] = @ + 1]

\* ---- GroupMembershipChanged ----
hasAccessOf(c) == username \in c.latestUsers \/ HasAny(c.latestGroups, groups)

\* variant: removed computed without the !hasAccess conjunct
removedOfNoPrecedence(c) ==
  username \in c.removedUsers \/ HasAny(c.removedGroups, groups)

removedOf(c) ==
  ~hasAccessOf(c) /\ (username \in c.removedUsers \/ HasAny(c.removedGroups, groups))

\* select { case w.cacheIncoming <- event: default: ... }
Enqueue(event, err) ==
  IF Len(cacheIncoming) < BufferCap
    THEN /\ cacheIncoming' = Append(cacheIncoming, event)
         /\ enqueued' = Append(enqueued, event)
         /\ UNCHANGED <<gmcPc, gmcErr>>
    ELSE /\ gmcPc' = "remove"
         /\ gmcErr' = err
         /\ UNCHANGED <<cacheIncoming, enqueued>>

\* variant: the removal branch without the knownProjects.Has test
RemovedCaseUnchecked(namespaceName) ==
  /\ knownProjects' = knownProjects \ {namespaceName}
  /\ Enqueue(Event("DELETED", namespaceName), DeleteTimeout)

\* case removed:
RemovedCase(namespaceName) ==
  IF namespaceName \notin knownProjects
    THEN UNCHANGED <<knownProjects, cacheIncoming, enqueued, gmcPc, gmcErr>>
    ELSE /\ knownProjects' = knownProjects \ {namespaceName}
         /\ Enqueue(Event("DELETED", namespaceName), DeleteTimeout)

\* variant: a failed lookup is handled like a full buffer
HasAccessCaseLookupFatal(namespaceName, lookupOk) ==
  IF ~lookupOk
    THEN /\ gmcPc' = "remove"
         /\ gmcErr' = "namespace not found"
         /\ UNCHANGED <<knownProjects, cacheIncoming, enqueued>>
    ELSE /\ knownProjects' = knownProjects \cup {namespaceName}
         /\ Enqueue(Event(IF namespaceName \in knownProjects
                            THEN "MODIFIED" ELSE "ADDED", namespaceName),
                    AddTimeout)

\* variant: the add branch records the delete branch's error
HasAccessCaseWrongError(namespaceName, lookupOk) ==
  IF ~lookupOk
    THEN UNCHANGED <<knownProjects, cacheIncoming, enqueued, gmcPc, gmcErr>>
    ELSE /\ knownProjects' = knownProjects \cup {namespaceName}
         /\ Enqueue(Event(IF namespaceName \in knownProjects
                            THEN "MODIFIED" ELSE "ADDED", namespaceName),
                    DeleteTimeout)

\* variant: the add branch without knownProjects.Insert
HasAccessCaseNoInsert(namespaceName, lookupOk) ==
  IF ~lookupOk
    THEN UNCHANGED <<knownProjects, cacheIncoming, enqueued, gmcPc, gmcErr>>
    ELSE /\ knownProjects' = knownProjects
         /\ Enqueue(Event(IF namespaceName \in knownProjects
                            THEN "MODIFIED" ELSE "ADDED", namespaceName),
                    AddTimeout)

\* variant: the add branch without the switch to watch.Modified
HasAccessCaseAlwaysAdded(namespaceName, lookupOk) ==
  IF ~lookupOk
    THEN UNCHANGED <<knownProjects, cacheIncoming, enqueued, gmcPc, gmcErr>>
    ELSE /\ knownProjects' = knownProjects \cup {namespaceName}
         /\ Enqueue(Event("ADDED", namespaceName), AddTimeout)

\* case hasAccess:
HasAccessCase(namespaceName, lookupOk) ==
  IF ~lookupOk
    THEN UNCHANGED <<knownProjects, cacheIncoming, enqueued, gmcPc, gmcErr>>
    ELSE /\ knownProjects' = knownProjects \cup {namespaceName}
         /\ Enqueue(Event(IF namespaceName \in knownProjects
                            THEN "MODIFIED" ELSE "ADDED", namespaceName),
                    AddTimeout)

\* the dispatcher calls the watcher while it is registered
GroupMembershipChanged(namespaceName, c, lookupOk) ==
  /\ gmcPc = "idle"
  /\ registered
  /\ Len(enqueued) < MaxEnqueued
  /\ CASE removedOf(c) -> RemovedCase(namespaceName)
       [] hasAccessOf(c) -> HasAccessCase(namespaceName, lookupOk)
       [] OTHER -> UNCHANGED <<knownProjects, cacheIncoming, enqueued, gmcPc, gmcErr>>
  /\ UNCHANGED <<initialProjects, listed, cacheError, registered, removeCalls>>
  /\ UNCHANGED stopVars
  /\ UNCHANGED watchVars

\* default: w.authCache.RemoveWatcher(w)
GmcRemoveWatcher ==
  /\ gmcPc = "remove"
  /\ RemoveWatcher("gmc")
  /\ gmcPc' = "sendError"
  /\ UNCHANGED <<knownProjects, gmcErr, lastCall, enqueued>>
  /\ UNCHANGED <<initialProjects, listed, cacheIncoming, cacheError>>
  /\ UNCHANGED stopVars
  /\ UNCHANGED watchVars

\* variant: the overflow branch returns without recording the error
GmcSendErrorSkipped ==
  /\ gmcPc = "sendError"
  /\ gmcPc' = "idle"
  /\ gmcErr' = ""
  /\ UNCHANGED <<knownProjects, lastCall, enqueued>>
  /\ UNCHANGED <<initialProjects, listed, cacheIncoming, cacheError, registered, removeCalls>>
  /\ UNCHANGED stopVars
  /\ UNCHANGED watchVars

\* w.cacheError <- errors.New(...): a blocking send, enabled when there is room
GmcSendError ==
  /\ gmcPc = "sendError"
  /\ Len(cacheError) < ErrorCap
  /\ cacheError' = Append(cacheError, gmcErr)
  /\ gmcPc' = "idle"
  /\ gmcErr' = ""
  /\ UNCHANGED <<knownProjects, lastCall, enqueued>>
  /\ UNCHANGED <<initialProjects, listed, cacheIncoming, registered, removeCalls>>
  /\ UNCHANGED stopVars
  /\ UNCHANGED watchVars

\* ---- Watch ----
\* variant: the loop body reads the first element instead of the i-th
InitialEventFirst(i) == Event("ADDED", initialProjects[1])

\* the Added event of the i-th initial project
InitialEvent(i) == Event("ADDED", initialProjects[i])

\* variant: the initial loop without the check of cacheError
WatchInitialNoCheck ==
  /\ watchPc = "initial"
  /\ IF watchI > Len(initialProjects)
       THEN /\ watchPc' = "select"
            /\ UNCHANGED watchEvent
       ELSE /\ watchEvent' = InitialEvent(watchI)
            /\ watchPc' = "emitInitial"
  /\ UNCHANGED <<watchI, outgoingCloses, delivered>>
  /\ UNCHANGED <<initialProjects, listed, cacheIncoming, cacheError, registered, removeCalls>>
  /\ UNCHANGED stopVars
  /\ UNCHANGED gmcVars

\* for i := range w.initialProjects { select { case err := <-w.cacheError: ... default: } ... }
WatchInitial ==
  /\ watchPc = "initial"
  /\ IF watchI > Len(initialProjects)
       THEN /\ watchPc' = "select"
            /\ UNCHANGED <<watchEvent, cacheError>>
       ELSE IF cacheError # <<>>
         THEN /\ watchEvent' = makeErrorEvent(Head(cacheError))
              /\ cacheError' = Tail(cacheError)
              /\ watchPc' = "emitError"
         ELSE /\ watchEvent' = InitialEvent(watchI)
              /\ watchPc' = "emitInitial"
              /\ UNCHANGED cacheError
  /\ UNCHANGED <<watchI, outgoingCloses, delivered>>
  /\ UNCHANGED <<initialProjects, listed, cacheIncoming, registered, removeCalls>>
  /\ UNCHANGED stopVars
  /\ UNCHANGED gmcVars

Emitting == watchPc \in {"emitInitial", "emitSteady", "emitError"}

\* variant: no return after emitting the error event
AfterEmitNoReturn ==
  /\ watchEvent' = NoEvent
  /\ CASE watchPc = "emitInitial" -> watchPc' = "initial" /\ watchI' = watchI + 1
       [] watchPc = "emitSteady" -> watchPc' = "select" /\ UNCHANGED watchI
       [] watchPc = "emitError" -> watchPc' = "select" /\ UNCHANGED watchI

\* where Watch continues once w.emit returns
AfterEmit ==
  /\ watchEvent' = NoEvent
  /\ CASE watchPc = "emitInitial" -> watchPc' = "initial" /\ watchI' = watchI + 1
       [] watchPc = "emitSteady" -> watchPc' = "select" /\ UNCHANGED watchI
       [] watchPc = "emitError" -> watchPc' = "deferRemove" /\ UNCHANGED watchI

\* variant: emit is a plain blocking send
EmitStopCaseMissing == FALSE

\* variant: emit gives up whenever the consumer is not receiving (default:)
EmitStopCaseAlways == TRUE

\* the case <-w.userStop of emit's select
EmitStopCase == userStop

\* emit: case w.outgoing <- e, taken together with a receive by the consumer
EmitSend ==
  /\ Emitting
  /\ delivered' = Append(delivered, watchEvent)
  /\ AfterEmit
  /\ UNCHANGED outgoingCloses
  /\ UNCHANGED <<initialProjects, listed, cacheIncoming, cacheError, registered, removeCalls>>
  /\ UNCHANGED stopVars
  /\ UNCHANGED gmcVars

\* emit: case <-w.userStop, the event is dropped
EmitAbort ==
  /\ Emitting
  /\ EmitStopCase
  /\ AfterEmit
  /\ UNCHANGED <<outgoingCloses, delivered>>
  /\ UNCHANGED <<initialProjects, listed, cacheIncoming, cacheError, registered, removeCalls>>
  /\ UNCHANGED stopVars
  /\ UNCHANGED gmcVars

\* for { select { case err := <-w.cacheError:
WatchSelectError ==
  /\ watchPc = "select"
  /\ cacheError # <<>>
  /\ watchEvent' = makeErrorEvent(Head(cacheError))
  /\ cacheError' = Tail(cacheError)
  /\ watchPc' = "emitError"
  /\ UNCHANGED <<watchI, outgoingCloses, delivered>>
  /\ UNCHANGED <<initialProjects, listed, cacheIncoming, registered, removeCalls>>
  /\ UNCHANGED stopVars
  /\ UNCHANGED gmcVars

\* variant: the steady select returns on default: instead of on userStop
SelectStopCaseAlways == TRUE

\* variant: the steady select looks at userStop only when cacheError is empty
SelectStopCaseAfterError == userStop /\ cacheError = <<>>

\* the case <-w.userStop of the steady select
SelectStopCase == userStop

\* case <-w.userStop: return
WatchSelectStop ==
  /\ watchPc = "select"
  /\ SelectStopCase
  /\ watchPc' = "deferRemove"
  /\ UNCHANGED <<watchI, watchEvent, outgoingCloses, delivered>>
  /\ UNCHANGED <<initialProjects, listed, cacheIncoming, cacheError, registered, removeCalls>>
  /\ UNCHANGED stopVars
  /\ UNCHANGED gmcVars

\* case event := <-w.cacheIncoming: (the watchChannelHWM update that follows
\* only feeds a log line and is left out)
WatchSelectIncoming ==
  /\ watchPc = "select"
  /\ cacheIncoming # <<>>
  /\ watchEvent' = Head(cacheIncoming)
  /\ cacheIncoming' = Tail(cacheIncoming)
  /\ watchPc' = "emitSteady"
  /\ UNCHANGED <<watchI, outgoingCloses, delivered>>
  /\ UNCHANGED <<initialProjects, listed, cacheError, registered, removeCalls>>
  /\ UNCHANGED stopVars
  /\ UNCHANGED gmcVars

\* variant: Watch ends without the deferred RemoveWatcher
WatchDeferRemoveMissing ==
  /\ watchPc = "deferRemove"
  /\ watchPc' = "deferClose"
  /\ UNCHANGED <<watchI, watchEvent, outgoingCloses, delivered>>
  /\ UNCHANGED <<initialProjects, listed, cacheIncoming, cacheError, registered, removeCalls>>
  /\ UNCHANGED stopVars
  /\ UNCHANGED gmcVars

\* defer func() { w.authCache.RemoveWatcher(w) }()
WatchDeferRemove ==
  /\ watchPc = "deferRemove"
  /\ RemoveWatcher("watch")
  /\ watchPc' = "deferClose"
  /\ UNCHANGED <<watchI, watchEvent, outgoingCloses, delivered>>
  /\ UNCHANGED <<initialProjects, listed, cacheIncoming, cacheError>>
  /\ UNCHANGED stopVars
  /\ UNCHANGED gmcVars

\* defer close(w.outgoing)
WatchDeferClose ==
  /\ watchPc = "deferClose"
  /\ outgoingCloses' = outgoingCloses + 1
  /\ watchPc' = "done"
  /\ UNCHANGED <<watchI, watchEvent, delivered>>
  /\ UNCHANGED <<initialProjects, listed, cacheIncoming, cacheError, registered, removeCalls>>
  /\ UNCHANGED stopVars
  /\ UNCHANGED gmcVars

Watch ==
  \/ WatchInitial
  \/ WatchSelectError
  \/ WatchSelectStop
  \/ WatchSelectIncoming
  \/ EmitSend
  \/ EmitAbort
  \/ WatchDeferRemove
  \/ WatchDeferClose

\* ---- Stop ----
otherVars == <<knownProjects, initialProjects, listed, cacheIncoming, cacheError,
               registered, removeCalls, watchPc, watchI, watchEvent,
               outgoingCloses, delivered, gmcPc, gmcErr, lastCall, enqueued>>

\* w.stopLock.Lock()
StopLock(t) ==
  /\ stopPc[t] = "idle"
  /\ stopLock = 0
  /\ stopLock' = t
  /\ stopPc' = [stopPc EXCEPT ![t] = "check"]
  /\ UNCHANGED <<userStop, userStopCloses>>
  /\ UNCHANGED otherVars

\* variant: Stop closes without looking at the channel first
StopAlreadyClosedIgnored == FALSE

\* the case <-w.userStop of Stop's select
StopAlreadyClosed == userStop

\* select { case <-w.userStop: return; default: }
StopCheck(t) ==
  /\ stopPc[t] = "check"
  /\ stopPc' = [stopPc EXCEPT ![t] = IF StopAlreadyClosed THEN "return" ELSE "close"]
  /\ UNCHANGED <<userStop, userStopCloses, stopLock>>
  /\ UNCHANGED otherVars

\* close(w.userStop)
StopClose(t) ==
  /\ stopPc[t] = "close"
  /\ userStop' = TRUE
  /\ userStopCloses' = userStopCloses + 1
  /\ stopPc' = [stopPc EXCEPT ![t] = "unlock"]
  /\ UNCHANGED stopLock
  /\ UNCHANGED otherVars

\* defer w.stopLock.Unlock(), after the early return or after the close
StopUnlock(t) ==
  /\ stopPc[t] \in {"return", "unlock"}
  /\ stopLock' = 0
  /\ stopPc' = [stopPc EXCEPT ![t] = "idle"]
  /\ UNCHANGED <<userStop, userStopCloses>>
  /\ UNCHANGED otherVars

Stop(t) == StopLock(t) \/ StopCheck(t) \/ StopClose(t) \/ StopUnlock(t)

\* ---- the system ----
\* the dispatcher delivers some change; projectCache.GetNamespace may fail
Dispatch ==
  \E namespaceName \in Names, c \in ChangeInputs, lookupOk \in BOOLEAN :
     /\ GroupMembershipChanged(namespaceName, c, lookupOk)
     /\ UNCHANGED lastCall

\* the same, and the call's classification is recorded in lastCall
DispatchObserved ==
  \E namespaceName \in Names, c \in ChangeInputs, lookupOk \in BOOLEAN :
     /\ GroupMembershipChanged(namespaceName, c, lookupOk)
     /\ lastCall' = [name |-> namespaceName, change |-> c,
                     hasAccess |-> hasAccessOf(c),
                     removed |-> removedOf(c),
                     lookupOk |-> hasAccessOf(c) /\ lookupOk,
                     known |-> namespaceName \in knownProjects]

\* every thread of control: dispatcher, Watch goroutine, consumer, Stop callers
Next ==
  \/ Dispatch
  \/ GmcRemoveWatcher
  \/ GmcSendError
  \/ Watch
  \/ \E t \in StopThreads : Stop(t)

Spec == Init /\ [][Next]_vars

\* the steps of Watch that do not need userStop closed
WatchNoStop ==
  \/ WatchInitial
  \/ WatchSelectError
  \/ WatchSelectIncoming
  \/ EmitSend
  \/ WatchDeferRemove
  \/ WatchDeferClose

\* the runs in which Stop is never invoked, with the calls observed
NextNoStop ==
  \/ DispatchObserved
  \/ GmcRemoveWatcher
  \/ GmcSendError
  \/ WatchNoStop

NoStopSpec == Init /\ [][NextNoStop]_vars

\* ---- fairness ----
\* The Watch goroutine and the dispatcher thread are scheduled fairly and the
\* consumer keeps receiving from ResultChan; Stop is never invoked.
NoStopFairSpec ==
  /\ NoStopSpec
  /\ WF_vars(WatchNoStop)
  /\ WF_vars(GmcRemoveWatcher)
  /\ WF_vars(GmcSendError)

\* The Watch goroutine and the threads inside Stop are scheduled fairly; a
\* select with several ready cases picks uniformly at random, so a case that
\* is ready again and again is eventually picked. Nothing is assumed of the
\* consumer: EmitSend has no fairness.
StallSpec ==
  /\ Spec
  /\ WF_vars(WatchInitial)
  /\ WF_vars(EmitAbort)
  /\ SF_vars(WatchSelectStop)
  /\ WF_vars(WatchDeferRemove)
  /\ WF_vars(WatchDeferClose)
  /\ \A t \in StopThreads : WF_vars(StopCheck(t) \/ StopClose(t) \/ StopUnlock(t))

\* ---- vocabulary of the properties ----
IsError(e) == e.type = "ERROR"

ErrorCount == Cardinality({i \in 1..Len(delivered) : IsError(delivered[i])})

ErrorDelivered == ErrorCount > 0

\* the Added events of the initial snapshot, in list order
ExpectedSnapshot ==
  [i \in 1..Len(initialProjects) |-> [type |-> "ADDED", object |-> initialProjects[i]]]

\* snapshot entries Watch has not taken yet
RemainingSnapshot ==
  SubSeq(ExpectedSnapshot,
         IF watchPc = "emitInitial" THEN watchI + 1 ELSE watchI,
         Len(ExpectedSnapshot))

\* the non-error event held by Watch inside emit
InFlight ==
  IF watchPc \in {"emitInitial", "emitSteady"} THEN <<watchEvent>> ELSE <<>>

\* some call found cacheIncoming full
Overflowed == gmcPc # "idle" \/ removeCalls.gmc > 0

\* the overflowing call has returned
OverflowRecorded == gmcPc = "idle" /\ removeCalls.gmc > 0

\* some thread has called Stop
StopInvoked == userStop \/ \E t \in StopThreads : stopPc[t] # "idle"

Terminated == watchPc = "done"

C2_IdempotentStop ==
  /\ userStopCloses <= 1
  /\ userStop <=> (userStopCloses = 1)
  /\ \A t \in StopThreads : stopPc[t] = "close" => ~userStop
  /\ \A t \in StopThreads : stopPc[t] \in {"return", "unlock"} => userStop

\* a later call has found userStop closed and is returning
C2_Witness ==
  /\ userStopCloses = 1
  /\ \E t \in StopThreads : stopPc[t] = "return"

\* ---- C3 ----
\* C3: once a call that found the buffer full has returned, the watcher is
\* deregistered and its error is in cacheError or already with Watch; and,
\* Stop never being invoked and the consumer reading, Watch eventually
\* delivers exactly one Error event as the last event and closes outgoing.
C3_ErrorPending ==
  OverflowRecorded =>
     /\ ~registered
     /\ removeCalls.gmc = 1
     /\ \/ Len(cacheError) = 1
        \/ (watchPc = "emitError" /\ IsError(watchEvent))
        \/ ErrorCount = 1

C3_ErrorClosed ==
  /\ Terminated
  /\ outgoingCloses = 1
  /\ ErrorCount = 1
  /\ IsError(delivered[Len(delivered)])

C3_OverflowTerminal ==
  /\ [](C3_ErrorPending)
  /\ OverflowRecorded ~> C3_ErrorClosed

C3_Witness == OverflowRecorded /\ C3_ErrorClosed /\ Len(enqueued) = BufferCap

\* ---- C4 ----
\* C4: the consumer receives at most one Error event, nothing after it, and
\* once it was received Watch is on its way out: only the deferred
\* RemoveWatcher and close(outgoing) remain, which fair scheduling of Watch
\* completes.
C4_ErrorLast ==
  /\ ErrorCount <= 1
  /\ \A i \in 1..Len(delivered) : IsError(delivered[i]) => i = Len(delivered)
  /\ ErrorDelivered => watchPc \in {"deferRemove", "deferClose", "done"}

C4_AtMostOneErrorLast ==
  /\ [](C4_ErrorLast)
  /\ ErrorDelivered ~> (Terminated /\ outgoingCloses = 1)

C4_Witness ==
  /\ Len(delivered) >= 2
  /\ IsError(delivered[Len(delivered)])
  /\ outgoingCloses = 1

\* ---- C5 ----
\* the claim's scenario: the buffer was filled by BufferCap events, none of
\* them taken by Watch before a further access-granting change overflowed it
C5_Scenario ==
  /\ OverflowRecorded
  /\ Len(enqueued) = BufferCap
  /\ lastCall.hasAccess

AddTimeoutEvent == [type |-> "ERROR", object |-> "add notification timeout"]

SnapshotPrefix(k) == SubSeq(ExpectedSnapshot, 1, k)

\* C5 as claimed: in the scenario the Error event comes only after all the
\* buffered events were delivered in order.
C5_AllBufferedThenError ==
  (C5_Scenario /\ ErrorDelivered) =>
     \E k \in 0..Len(ExpectedSnapshot) :
        delivered = SnapshotPrefix(k) \o enqueued \o <<AddTimeoutEvent>>

\* C5 amended: in the scenario the consumer receives a prefix (possibly
\* empty, possibly all) of the buffered events in order and then the Error
\* event "add notification timeout"; nothing of the overflowing change and
\* nothing after the Error; Watch then terminates and closes outgoing.
C5_PrefixShape ==
  (C5_Scenario /\ ErrorDelivered) =>
     \E k \in 0..Len(ExpectedSnapshot), j \in 0..Len(enqueued) :
        /\ delivered = SnapshotPrefix(k) \o SubSeq(enqueued, 1, j) \o <<AddTimeoutEvent>>
        /\ j > 0 => k = Len(ExpectedSnapshot)

C5_PrefixThenError ==
  /\ [](C5_PrefixShape)
  /\ C5_Scenario ~> (Terminated /\ outgoingCloses = 1 /\ ErrorCount = 1)

C5_Witness ==
  /\ C5_Scenario
  /\ Terminated
  /\ delivered = enqueued \o <<AddTimeoutEvent>>

\* ---- C6 ----
\* C6: whenever GroupMembershipChanged reaches its send on cacheError the
\* channel has room, so the send completes at once; the handler's other steps
\* (non-blocking select, RemoveWatcher) never wait.
C6_NeverBlocks == gmcPc = "sendError" => Len(cacheError) < ErrorCap

C6_Witness == gmcPc = "sendError" /\ Emitting /\ ~userStop

\* ---- C7 ----
\* C7: Watch calls RemoveWatcher once and closes outgoing once on its way
\* out, in that order, whether or not GroupMembershipChanged deregistered the
\* watcher before; outgoing is closed only by the terminated Watch, so nothing
\* is sent on it afterwards.
C7_CleanupOnce ==
  /\ removeCalls.watch <= 1
  /\ outgoingCloses <= 1
  /\ Terminated => (removeCalls.watch = 1 /\ outgoingCloses = 1)
  /\ outgoingCloses = 1 => Terminated
  /\ watchPc = "deferClose" => removeCalls.watch = 1

C7_Witness ==
  /\ Terminated
  /\ removeCalls.gmc = 1
  /\ removeCalls.watch = 1
  /\ ErrorDelivered

\* ---- C8 ----
\* C8: a call classified as a removal for a name that is not in
\* knownProjects changes nothing of the watcher: no event, same knownProjects,
\* cacheIncoming and cacheError, still registered, and the call has returned.
C8_RemovalOfUnknown ==
  [][(lastCall' # lastCall /\ lastCall'.removed /\ ~lastCall'.known) =>
        /\ UNCHANGED <<knownProjects, cacheIncoming, cacheError, enqueued>>
        /\ UNCHANGED <<registered, removeCalls>>
        /\ gmcPc' = "idle"]_vars

C8_Witness ==
  /\ lastCall.removed
  /\ ~lastCall.known
  /\ lastCall.name \notin knownProjects
  /\ knownProjects # {}

\* ---- C9 ----
\* C9: a hasAccess call whose lookup fails changes nothing of the watcher and
\* returns with the watcher still registered, so later calls are processed;
\* the only Error events a consumer can receive are the two overflow errors.
C9_LookupFailureFrame ==
  [][(lastCall' # lastCall /\ lastCall'.hasAccess /\ ~lastCall'.lookupOk) =>
        /\ UNCHANGED <<knownProjects, cacheIncoming, cacheError, enqueued>>
        /\ UNCHANGED <<registered, removeCalls>>
        /\ registered'
        /\ gmcPc' = "idle"]_vars

C9_OnlyOverflowErrors ==
  \A i \in 1..Len(delivered) :
     IsError(delivered[i]) =>
        delivered[i].object \in {"add notification timeout", "delete notification timeout"}

C9_RecoverableLookup == C9_LookupFailureFrame /\ [](C9_OnlyOverflowErrors)

C9_Witness ==
  /\ lastCall.hasAccess
  /\ ~lastCall.lookupOk
  /\ registered
  /\ gmcPc = "idle"
  /\ enqueued # <<>>

\* ---- C10 ----
\* C10: once Stop has been invoked Watch eventually terminates, with the
\* watcher deregistered and outgoing closed, whatever the consumer does.
C10_StopTerminates ==
  StopInvoked ~> (Terminated /\ ~registered /\ outgoingCloses = 1)

C10_Witness ==
  /\ userStop
  /\ Terminated
  /\ cacheIncoming # <<>>
  /\ ~ErrorDelivered
  /\ Len(delivered) < Len(ExpectedSnapshot)

\* ---- vocabulary of the later properties ----
\* Watch has returned from its loops; only the deferred calls remain
Exiting == watchPc \in {"deferRemove", "deferClose", "done"}

\* the stream Watch reads from: the snapshot, then the accepted events
Stream == ExpectedSnapshot \o enqueued

\* the events the consumer received, without the Error events
RECURSIVE NonError(_)
NonError(s) ==
  IF s = <<>> THEN <<>>
  ELSE IF IsError(Head(s)) THEN NonError(Tail(s))
  ELSE <<Head(s)>> \o NonError(Tail(s))

IsPrefix(s, t) == Len(s) <= Len(t) /\ s = SubSeq(t, 1, Len(s))

RECURSIVE IsSubsequence(_, _)
IsSubsequence(s, t) ==
  IF s = <<>> THEN TRUE
  ELSE IF t = <<>> THEN FALSE
  ELSE IF Head(s) = Head(t) THEN IsSubsequence(Tail(s), Tail(t))
  ELSE IsSubsequence(s, Tail(t))

\* ---- C11 ----
\* the first Stop call has closed userStop and no Stop call is in progress
StopCompleted == userStop /\ \A t \in StopThreads : stopPc[t] = "idle"

C12_NoEventAfterSlotSet ==
  [][OverflowRecorded => (delivered' = delivered \/ IsError(delivered'[Len(delivered')]))]_vars

\* the error has been received from cacheError by Watch
ErrorTaken == OverflowRecorded /\ cacheError = <<>>

\* C12 amended: cacheError never holds more than one error and is written
\* at most once; once Watch has received the error from it, no non-error
\* event is delivered any more (between the write and that receive, buffered
\* and in-flight events can still be delivered).
C12_SlotOnce ==
  /\ Len(cacheError) <= 1
  /\ removeCalls.gmc <= 1
  /\ (gmcPc = "sendError") => (removeCalls.gmc = 1 /\ cacheError = <<>>)

C12_ErrorSlot ==
  /\ [](C12_SlotOnce)
  /\ [][ErrorTaken => (delivered' = delivered \/ IsError(delivered'[Len(delivered')]))]_vars

C12_Witness ==
  /\ ErrorTaken
  /\ ErrorDelivered
  /\ Len(delivered) >= 2
  /\ cacheIncoming # <<>>

\* ---- C13 ----
\* the events accepted for one name
EventsFor(n) == {i \in 1..Len(enqueued) : enqueued[i].object = n}

LastFor(n) == enqueued[CHOOSE i \in EventsFor(n) : \A j \in EventsFor(n) : j <= i]

\* what the accepted events say about a name: its last event is not a
\* Deleted one, or it has no event and List returned it
KnownByEvents(n) ==
  IF EventsFor(n) = {} THEN n \in listed ELSE LastFor(n).type \in {"ADDED", "MODIFIED"}

\* the call that found the buffer full built a Deleted event for n
DeletedRefused(n) == Overflowed /\ lastCall.removed /\ lastCall.name = n

\* the call that found the buffer full built an Added or Modified event for n
AddedRefused(n) == Overflowed /\ lastCall.hasAccess /\ lastCall.name = n

\* C13 as claimed: after every completed call, overflowing calls included, a
\* name is in knownProjects iff its last accepted event (if any) was Added or
\* Modified and no Deleted was processed after it.
C13_KnownSetAlways ==
  gmcPc = "idle" =>
     \A n \in Names : (n \in knownProjects) <=> (KnownByEvents(n) /\ ~DeletedRefused(n))

\* C13 amended: a name is in knownProjects iff the last event the handler
\* built for it, accepted by cacheIncoming or refused because the buffer was
\* full, was Added or Modified (List's answer counting when there is none);
\* knownProjects changes only in a step of GroupMembershipChanged that
\* enqueues an event or overflows.
C13_KnownSetInvariant ==
  \A n \in Names :
     (n \in knownProjects) <=>
        (AddedRefused(n) \/ (KnownByEvents(n) /\ ~DeletedRefused(n)))

C13_KnownSet ==
  /\ [](C13_KnownSetInvariant)
  /\ [][knownProjects' # knownProjects =>
          (enqueued' # enqueued \/ (gmcPc = "idle" /\ gmcPc' = "remove"))]_vars

\* an Added event was refused for a name whose last accepted event is Deleted
C13_Witness ==
  /\ OverflowRecorded
  /\ \E n \in Names :
        /\ AddedRefused(n)
        /\ ~KnownByEvents(n)
        /\ EventsFor(n) # {}
        /\ n \in knownProjects

\* ---- C14 ----
\* C14: an accepted event of a hasAccess call carries the call's name, is
\* Modified when the name was in knownProjects before the call and Added
\* otherwise, and the name is in knownProjects afterwards (also when the
\* buffer was full); an accepted event of a removal is Deleted, carries the
\* name, the name was in knownProjects before and is not afterwards.
C14_EventKinds ==
  [][(enqueued' # enqueued \/ (gmcPc = "idle" /\ gmcPc' = "remove")) =>
       /\ lastCall'.hasAccess =>
            /\ lastCall'.name \in knownProjects'
            /\ enqueued' # enqueued =>
                 enqueued' = Append(enqueued,
                    [type |-> IF lastCall'.name \in knownProjects
                                THEN "MODIFIED" ELSE "ADDED",
                     object |-> lastCall'.name])
       /\ ~lastCall'.hasAccess =>
            /\ lastCall'.removed
            /\ lastCall'.name \in knownProjects
            /\ knownProjects' = knownProjects \ {lastCall'.name}
            /\ enqueued' # enqueued =>
                 enqueued' = Append(enqueued,
                    [type |-> "DELETED", object |-> lastCall'.name])]_vars

\* without the snapshot, the first event for a name List returned is Modified
C14_Witness ==
  /\ initialProjects = <<>>
  /\ Len(enqueued) = 1
  /\ enqueued[1].type = "MODIFIED"
  /\ lastCall.hasAccess

\* ---- C15 ----
\* the classification, read off the six sets of the observed call
C15_Access ==
  "bob" \in lastCall.change.latestUsers \/ "dev" \in lastCall.change.latestGroups

C15_Removal ==
  /\ ~C15_Access
  /\ ("bob" \in lastCall.change.removedUsers \/ "dev" \in lastCall.change.removedGroups)

C15_Classified ==
  /\ lastCall.hasAccess <=> C15_Access
  /\ lastCall.removed <=> C15_Removal

\* C15: a call is handled as access iff the user is in latestUsers or a
\* group in latestGroups, as removal iff not so and the user is in
\* removedUsers or a group in removedGroups: with access no Deleted event is
\* enqueued and the name is not dropped from knownProjects, whatever the
\* removed and added sets hold; with neither, nothing changes.
C15_Classification ==
  /\ [](C15_Classified)
  /\ [][lastCall' # lastCall =>
          /\ C15_Access' =>
               /\ knownProjects \subseteq knownProjects'
               /\ enqueued' # enqueued => enqueued'[Len(enqueued')].type # "DELETED"
               /\ lastCall'.lookupOk => lastCall'.name \in knownProjects'
          /\ C15_Removal' => lastCall'.name \notin knownProjects'
          /\ (~C15_Access' /\ ~C15_Removal') =>
               /\ UNCHANGED <<knownProjects, cacheIncoming, cacheError, enqueued>>
               /\ UNCHANGED <<registered, removeCalls, gmcPc>>]_vars

\* an identity both in a latest set and in a removed set, handled as access
C15_Witness ==
  /\ C15_Access
  /\ "bob" \in lastCall.change.removedUsers
  /\ lastCall.change.addedUsers # {}
  /\ enqueued # <<>>
  /\ enqueued[Len(enqueued)].object = lastCall.name
  /\ enqueued[Len(enqueued)].type = "MODIFIED"

\* ---- C16 ----
\* Watch is at its steady select with both an error and the stop signal ready
BothReady == watchPc = "select" /\ cacheError # <<>> /\ userStop

\* C16: when Watch is at its steady select with cacheError set and userStop
\* closed, the select can take either case: the error case, which leads to
\* emit, where the Error event can again be sent or dropped, and the stop
\* case, which ends Watch with no Error event.
C16_EitherOutcome ==
  /\ BothReady => (ENABLED WatchSelectError /\ ENABLED WatchSelectStop)
  /\ (watchPc = "emitError" /\ userStop) => (ENABLED EmitSend /\ ENABLED EmitAbort)

C16_Witness == BothReady /\ ~ErrorDelivered /\ registered = FALSE

\* ---- C17 ----
\* Watch got the error while entry watchI of the snapshot was next
ErrorInInitial ==
  (watchPc = "emitError" \/ Exiting) /\ watchI <= Len(initialProjects)

\* C17: at the top of the initial loop with an entry left and cacheError
\* set, the only step of Watch takes the error to emit; when the error was
\* taken there, the consumer has received exactly the entries before that one,
\* no buffered event, and at most the Error event after them; once past the
\* initial loop Watch does not come back to it.
C17_InitialCheck ==
  /\ [][(watchPc = "initial" /\ watchI <= Len(initialProjects) /\ cacheError # <<>>
           /\ watchPc' # watchPc) =>
          (watchPc' = "emitError" /\ IsError(watchEvent') /\ cacheError' = <<>>)]_vars
  /\ [](ErrorInInitial =>
          /\ NonError(delivered) = SnapshotPrefix(watchI - 1)
          /\ (Exiting => delivered = SnapshotPrefix(watchI - 1)
                             \o <<[type |-> "ERROR", object |-> delivered[Len(delivered)].object]>>))
  /\ [][watchPc \notin {"initial", "emitInitial"} =>
          watchPc' \notin {"initial", "emitInitial"}]_vars

C17_Witness ==
  /\ Terminated
  /\ watchI = 2
  /\ Len(initialProjects) = 2
  /\ Len(delivered) = 2
  /\ IsError(delivered[2])
  /\ cacheIncoming # <<>>

\* ---- C18 ----
\* whether n counts as known after the first k accepted events
KnownAfter(n, k) ==
  LET idx == {i \in 1..k : enqueued[i].object = n} IN
    IF idx = {} THEN n \in listed
    ELSE enqueued[CHOOSE i \in idx : \A j \in idx : j <= i].type # "DELETED"

\* C18: in the sequence of accepted events an Added event comes only for a
\* name not known at that point, a Modified or Deleted event only for a known
\* one; so two Added events of a name have a Deleted one between them and no
\* two Deleted events of a name follow each other.
C18_WellFormedStream ==
  /\ [](\A k \in 1..Len(enqueued) :
          /\ enqueued[k].type \in {"ADDED", "MODIFIED", "DELETED"}
          /\ enqueued[k].type = "ADDED" => ~KnownAfter(enqueued[k].object, k - 1)
          /\ enqueued[k].type \in {"MODIFIED", "DELETED"} =>
                KnownAfter(enqueued[k].object, k - 1))
  /\ [][enqueued' # enqueued =>
          LET e == enqueued'[Len(enqueued')] IN
            /\ enqueued' = Append(enqueued, e)
            /\ (e.type = "ADDED") = (e.object \notin knownProjects)]_vars

C18_Witness ==
  /\ Len(enqueued) = 2
  /\ enqueued[1].type = "DELETED"
  /\ enqueued[2].type = "ADDED"
  /\ enqueued[1].object = enqueued[2].object

\* ---- C19 ----
\* C19: while userStop is open the non-error events received are a gap-free
\* prefix of the stream (snapshot, then accepted events), an Error event being
\* the last one received if there is one; at all times they are a subsequence
\* of the stream in its order; an event Watch has taken leaves emit
\* undelivered only when userStop is closed.
C19_NoSilentLoss ==
  /\ [](IsSubsequence(NonError(delivered), Stream))
  /\ [](~userStop =>
          /\ IsPrefix(NonError(delivered), Stream)
          /\ \A i \in 1..Len(delivered) : IsError(delivered[i]) => i = Len(delivered))
  /\ [][(watchPc \in {"emitInitial", "emitSteady"} /\ watchPc' # watchPc
           /\ delivered' = delivered) => userStop]_vars

\* after Stop an event was dropped and a later one delivered
C19_Witness ==
  /\ userStop
  /\ delivered # <<>>
  /\ ~IsPrefix(NonError(delivered), Stream)

\* ---- C20 ----
\* C20: outgoing is closed only after Watch has called RemoveWatcher, so
\* whenever it is closed the watcher is deregistered; no step of
\* GroupMembershipChanged closes outgoing or delivers on it.
C20_ClosedImpliesRemoved ==
  outgoingCloses >= 1 => (~registered /\ removeCalls.watch = 1)

C20_ShutdownOrder ==
  /\ [](C20_ClosedImpliesRemoved)
  /\ [][(gmcPc' # gmcPc \/ knownProjects' # knownProjects \/ enqueued' # enqueued) =>
          UNCHANGED <<outgoingCloses, delivered, watchPc, watchEvent>>]_vars

\* a call that found the buffer full is still running when Watch has ended
C20_Witness ==
  /\ Terminated
  /\ outgoingCloses = 1
  /\ gmcPc = "sendError"

====
